---- MODULE Spec2Model ----
(***************************************************************************)
(* Model of the AIMU GitHub-based update server (src/app.py).              *)
(*                                                                         *)
(* Text values (version strings, tags, client ids, asset names, dates) are *)
(* sequences of one-character strings, so that str.lstrip, str.lower,      *)
(* str.endswith, string ordering and packaging.version.parse are computed  *)
(* character by character, as the code computes them.                      *)
(***************************************************************************)
EXTENDS Integers, Sequences, FiniteSets, TLC

VARIABLES update_logs, upstream, last_req, response

vars == <<update_logs, upstream, last_req, response>>

(***************************************************************************)
(* Bounds of the model.                                                    *)
(***************************************************************************)
\* rows the update_logs table may hold in the logging specifications
MaxLog == 2
\* check calls per run of the comparison specification
MaxChecks == 1
\* releases in one upstream release list (selection specification)
MaxReleases == 3
\* rows of the statistics specification beyond the pre-populated ones
MaxStatRows == 3

(***************************************************************************)
(* Characters and Python str operations.                                   *)
(***************************************************************************)
Digits == {"0", "1", "2", "3", "4", "5", "6", "7", "8", "9"}

Letters == {"a", "b", "c", "d", "e", "h", "i", "l", "n", "o", "p", "r",
            "s", "t", "u", "v", "w", "x", "z",
            "E", "I", "N", "P", "V", "X", "Z"}

\* code point of a character (Python compares str by code point)
Ord(c) ==
    CASE c = "+" -> 43 [] c = "-" -> 45 [] c = "." -> 46
      [] c = "0" -> 48 [] c = "1" -> 49 [] c = "2" -> 50 [] c = "3" -> 51
      [] c = "4" -> 52 [] c = "5" -> 53 [] c = "6" -> 54 [] c = "7" -> 55
      [] c = "8" -> 56 [] c = "9" -> 57
      [] c = "E" -> 69 [] c = "I" -> 73 [] c = "N" -> 78 [] c = "P" -> 80
      [] c = "V" -> 86 [] c = "X" -> 88 [] c = "Z" -> 90
      [] c = "_" -> 95
      [] c = "a" -> 97 [] c = "b" -> 98 [] c = "c" -> 99 [] c = "d" -> 100
      [] c = "e" -> 101 [] c = "h" -> 104 [] c = "i" -> 105
      [] c = "l" -> 108 [] c = "n" -> 110 [] c = "o" -> 111
      [] c = "p" -> 112 [] c = "r" -> 114 [] c = "s" -> 115
      [] c = "t" -> 116 [] c = "u" -> 117 [] c = "v" -> 118
      [] c = "w" -> 119 [] c = "x" -> 120 [] c = "z" -> 122
      [] OTHER -> 0

DigitVal(c) == Ord(c) - 48

\* str.lower() on one character
LowerChar(c) ==
    CASE c = "E" -> "e" [] c = "I" -> "i" [] c = "N" -> "n" [] c = "P" -> "p"
      [] c = "V" -> "v" [] c = "X" -> "x" [] c = "Z" -> "z"
      [] OTHER -> c

\* str.lower()
Lower(s) == [i \in 1..Len(s) |-> LowerChar(s[i])]

\* str.endswith(suffix)
EndsWith(s, suffix) ==
    /\ Len(suffix) <= Len(s)
    /\ SubSeq(s, Len(s) - Len(suffix) + 1, Len(s)) = suffix

\* s[i-1:] in Python terms: the rest of s from position i (1-based)
From(s, i) == SubSeq(s, i, Len(s))

\* comparison of two str values by code point: -1, 0 or 1
RECURSIVE StrCmp(_, _)
StrCmp(a, b) ==
    IF a = <<>> /\ b = <<>> THEN 0
    ELSE IF a = <<>> THEN -1
    ELSE IF b = <<>> THEN 1
    ELSE IF Ord(Head(a)) < Ord(Head(b)) THEN -1
    ELSE IF Ord(Head(a)) > Ord(Head(b)) THEN 1
    ELSE StrCmp(Tail(a), Tail(b))

\* str.lstrip('v'): every leading lower-case "v" is removed
RECURSIVE LStripV(_)
LStripV(s) ==
    IF s # <<>> /\ Head(s) = "v" THEN LStripV(Tail(s)) ELSE s

(***************************************************************************)
(* packaging.version.parse, as called at src/app.py:135: the PEP 440       *)
(* grammar of packaging's VERSION_PATTERN (matched ignoring case) and the  *)
(* comparison key of packaging's Version.  Strings of the model hold no    *)
(* white space and no "!" (epoch), so the epoch is always 0.               *)
(***************************************************************************)
Seps == {"-", "_", "."}

AlNum == Digits \cup Letters

\* the character at position i, "" beyond the end
At(s, i) == IF i >= 1 /\ i <= Len(s) THEN s[i] ELSE ""

\* first position at or after i that holds no digit
RECURSIVE SpanDigits(_, _)
SpanDigits(s, i) == IF At(s, i) \in Digits THEN SpanDigits(s, i + 1) ELSE i

\* first position at or after i that holds no letter or digit
RECURSIVE SpanAlNum(_, _)
SpanAlNum(s, i) == IF At(s, i) \in AlNum THEN SpanAlNum(s, i + 1) ELSE i

\* int() of a sequence of digits
RECURSIVE ToNat(_)
ToNat(s) ==
    IF s = <<>> THEN 0
    ELSE ToNat(SubSeq(s, 1, Len(s) - 1)) * 10 + DigitVal(s[Len(s)])

AllDigits(s) == s # <<>> /\ \A i \in 1..Len(s) : s[i] \in Digits

\* the word w stands at position i of s, ignoring case
MatchWord(s, i, w) ==
    /\ i + Len(w) - 1 <= Len(s)
    /\ Lower(SubSeq(s, i, i + Len(w) - 1)) = w

\* position of the first character of s that is in cs, 0 if there is none
FirstIndex(s, cs) ==
    IF \E i \in 1..Len(s) : s[i] \in cs
    THEN CHOOSE i \in 1..Len(s) :
             s[i] \in cs /\ \A k \in 1..(i - 1) : s[k] \notin cs
    ELSE 0

\* re.split on the characters of cs
RECURSIVE Split(_, _)
Split(s, cs) ==
    LET k == FirstIndex(s, cs)
    IN  IF k = 0 THEN <<s>>
        ELSE <<SubSeq(s, 1, k - 1)>> \o Split(From(s, k + 1), cs)

\* end of the release segment [0-9]+(\.[0-9]+)* whose first number ends at j
RECURSIVE ReleaseEnd(_, _)
ReleaseEnd(s, j) ==
    IF At(s, j) = "." /\ At(s, j + 1) \in Digits
    THEN ReleaseEnd(s, SpanDigits(s, j + 1))
    ELSE j

\* release numbers with the trailing zeros dropped (Version._key)
RECURSIVE DropTrailingZeros(_)
DropTrailingZeros(r) ==
    IF r # <<>> /\ r[Len(r)] = 0
    THEN DropTrailingZeros(SubSeq(r, 1, Len(r) - 1))
    ELSE r

\* pre-release spellings in the order the pattern tries them, and the rank
\* of the letter each is normalised to: a < b < rc
PreWords == << <<"a", "l", "p", "h", "a">>, <<"a">>,
               <<"b", "e", "t", "a">>, <<"b">>,
               <<"p", "r", "e", "v", "i", "e", "w">>, <<"p", "r", "e">>,
               <<"c">>, <<"r", "c">> >>

PreRank == <<0, 0, 1, 1, 2, 2, 2, 2>>

PostWords == << <<"p", "o", "s", "t">>, <<"r", "e", "v">>, <<"r">> >>

DevWords == << <<"d", "e", "v">> >>

\* index of the first word of ws standing at position i, 0 if none does
FirstWord(s, i, ws) ==
    IF \E w \in 1..Len(ws) : MatchWord(s, i, ws[w])
    THEN CHOOSE w \in 1..Len(ws) :
             MatchWord(s, i, ws[w])
             /\ \A u \in 1..(w - 1) : ~MatchWord(s, i, ws[u])
    ELSE 0

\* [-_.]? word [-_.]? [0-9]* at position j: the word's index (0: no match),
\* the number (0 when left out) and the position after the match
Labelled(s, j, ws) ==
    LET k == IF At(s, j) \in Seps THEN j + 1 ELSE j
        w == FirstWord(s, k, ws)
    IN  IF w = 0 THEN [word |-> 0, n |-> 0, pos |-> j]
        ELSE LET m  == k + Len(ws[w])
                 m2 == IF At(s, m) \in Seps THEN m + 1 ELSE m
                 e  == SpanDigits(s, m2)
             IN  [word |-> w, n |-> ToNat(SubSeq(s, m2, e - 1)), pos |-> e]

\* the post-release part: -N, or a labelled post/rev/r
PostPart(s, j) ==
    IF At(s, j) = "-" /\ At(s, j + 1) \in Digits
    THEN LET e == SpanDigits(s, j + 1)
         IN  [word |-> 1, n |-> ToNat(SubSeq(s, j + 1, e - 1)), pos |-> e]
    ELSE Labelled(s, j, PostWords)

\* end of the local version \+[a-z0-9]+([-_.][a-z0-9]+)* starting at j,
\* j itself when there is none
RECURSIVE LocalEnd(_, _)
LocalEnd(s, e) ==
    IF At(s, e) \in Seps /\ At(s, e + 1) \in AlNum
    THEN LocalEnd(s, SpanAlNum(s, e + 1))
    ELSE e

LocalPart(s, j) ==
    IF At(s, j) = "+" /\ At(s, j + 1) \in AlNum
    THEN LET e == LocalEnd(s, SpanAlNum(s, j + 1))
         IN  [segs |-> Split(Lower(SubSeq(s, j + 1, e - 1)), Seps), pos |-> e]
    ELSE [segs |-> <<>>, pos |-> j]

\* Version(s): ok is FALSE where packaging raises InvalidVersion; pre, post
\* and dev are <<>> for None
ParseVersion(s) ==
    LET i1 == IF MatchWord(s, 1, <<"v">>) THEN 2 ELSE 1
        j0 == SpanDigits(s, i1)
    IN  IF j0 = i1
        THEN [ok |-> FALSE]
        ELSE
        LET j     == ReleaseEnd(s, j0)
            nums  == Split(SubSeq(s, i1, j - 1), {"."})
            pre   == Labelled(s, j, PreWords)
            post  == PostPart(s, pre.pos)
            dev   == Labelled(s, post.pos, DevWords)
            local == LocalPart(s, dev.pos)
        IN  IF local.pos # Len(s) + 1
            THEN [ok |-> FALSE]
            ELSE [ok      |-> TRUE,
                  release |-> [k \in 1..Len(nums) |-> ToNat(nums[k])],
                  pre     |-> IF pre.word = 0 THEN <<>>
                              ELSE <<PreRank[pre.word], pre.n>>,
                  post    |-> IF post.word = 0 THEN <<>> ELSE <<post.n>>,
                  dev     |-> IF dev.word = 0 THEN <<>> ELSE <<dev.n>>,
                  local   |-> local.segs]

CmpInt(a, b) == IF a < b THEN -1 ELSE IF a > b THEN 1 ELSE 0

\* comparison of two tuples of integers, as Python compares tuples
RECURSIVE CmpNatSeq(_, _)
CmpNatSeq(a, b) ==
    IF a = <<>> /\ b = <<>> THEN 0
    ELSE IF a = <<>> THEN -1
    ELSE IF b = <<>> THEN 1
    ELSE IF Head(a) # Head(b) THEN CmpInt(Head(a), Head(b))
    ELSE CmpNatSeq(Tail(a), Tail(b))

\* one local segment: a number is (n, ""), a word is (-Infinity, word)
CmpLocalSeg(x, y) ==
    IF AllDigits(x) /\ AllDigits(y) THEN CmpInt(ToNat(x), ToNat(y))
    ELSE IF AllDigits(x) THEN 1
    ELSE IF AllDigits(y) THEN -1
    ELSE StrCmp(x, y)

\* local versions; <<>> (None) is -Infinity, below every local version
RECURSIVE CmpLocal(_, _)
CmpLocal(a, b) ==
    IF a = <<>> /\ b = <<>> THEN 0
    ELSE IF a = <<>> THEN -1
    ELSE IF b = <<>> THEN 1
    ELSE IF CmpLocalSeg(Head(a), Head(b)) # 0
         THEN CmpLocalSeg(Head(a), Head(b))
    ELSE CmpLocal(Tail(a), Tail(b))

\* the _pre, _post and _dev entries of Version._key as tuples of integers:
\* a missing pre is +Infinity, or -Infinity for a dev release without post;
\* a missing post is -Infinity; a missing dev is +Infinity
KeyPre(v) ==
    IF v.pre = <<>> /\ v.post = <<>> /\ v.dev # <<>> THEN <<0>>
    ELSE IF v.pre = <<>> THEN <<2>>
    ELSE <<1>> \o v.pre

KeyPost(v) == IF v.post = <<>> THEN <<0>> ELSE <<1>> \o v.post

KeyDev(v) == IF v.dev = <<>> THEN <<1>> ELSE <<0>> \o v.dev

\* Version.__gt__: the keys (epoch, release, pre, post, dev, local) compared
\* entry by entry
VersionCmp(x, y) ==
    LET c1 == CmpNatSeq(DropTrailingZeros(x.release),
                        DropTrailingZeros(y.release))
        c2 == CmpNatSeq(KeyPre(x), KeyPre(y))
        c3 == CmpNatSeq(KeyPost(x), KeyPost(y))
        c4 == CmpNatSeq(KeyDev(x), KeyDev(y))
    IN  IF c1 # 0 THEN c1
        ELSE IF c2 # 0 THEN c2
        ELSE IF c3 # 0 THEN c3
        ELSE IF c4 # 0 THEN c4
        ELSE CmpLocal(x.local, y.local)

VersionGreater(x, y) == VersionCmp(x, y) = 1

(***************************************************************************)
(* Values of the requests and of the log store.                            *)
(***************************************************************************)
\* Python None / SQL NULL / JSON null
NULL == <<"None">>

\* a query parameter or a JSON key that the request does not carry
ABSENT == <<"absent">>

UNKNOWN == <<"u", "n", "k", "n", "o", "w", "n">>

WINDOWS == <<"w", "i", "n", "d", "o", "w", "s">>

DEFAULT_VERSION == <<"1", ".", "0", ".", "0">>

MIN_SUPPORTED == <<"1", ".", "0", ".", "0">>

\* dict.get(key, default) / request.args.get(key, default): the default only
\* when the key is missing (a JSON null is returned as None)
Get(value, default) == IF value = ABSENT THEN default ELSE value

\* str(x) as an f-string formats it
Format(x) == IF x = NULL THEN <<"N", "o", "n", "e">> ELSE x

\* the action texts: the literal part is one token, a formatted value follows
CHECK_UPDATE == <<"check_update">>

INSTALL_UPDATE == <<"install_update">>

RollbackAction(reason) == <<"rollback_update: ">> \o Format(reason)

(***************************************************************************)
(* Event Logger: log_update_action.  db_ok is FALSE when sqlite raises     *)
(* (connect, execute or commit); the NOT NULL constraints of the table     *)
(* (init_database) reject a NULL client_version or action.  Every          *)
(* exception is caught and logged, and no row is written.  The id is the   *)
(* AUTOINCREMENT key; the timestamp column (CURRENT_TIMESTAMP) is left out.*)
(***************************************************************************)
InsertFailsMutant(version, action, db_ok) == FALSE

\* the INSERT raises
InsertFails(version, action, db_ok) ==
    \/ ~db_ok
    \/ version = NULL
    \/ action = NULL

log_update_action(logs, client_id, version, action, ip_address, user_agent, platform, db_ok) ==
    IF InsertFails(version, action, db_ok)
    THEN logs
    ELSE Append(logs, [id             |-> Len(logs) + 1,
                       client_version |-> version,
                       client_id      |-> client_id,
                       action         |-> action,
                       ip_address     |-> ip_address,
                       user_agent     |-> user_agent,
                       platform       |-> platform])

(***************************************************************************)
(* Release Source Adapter, Release Selector, Asset Matcher.                *)
(***************************************************************************)
\* get_github_releases: the decoded list on HTTP 200, [] on any other
\* status and on any exception (transport error, timeout, undecodable body)
GetReleasesMutant(fetch) == fetch.json

get_github_releases(fetch) ==
    IF fetch.outcome = "response" /\ fetch.status_code = 200
    THEN fetch.json
    ELSE <<>>

IsStableMutant(r) == ~r.draft

IsStable(r) == ~r.prerelease /\ ~r.draft

\* is a before b in list.sort(key=published_at, reverse=True)?
ComesFirst(a, b) == StrCmp(a.published_at, b.published_at) = 1

\* list.sort(..., reverse=True): a stable sort, equal keys keep their order
RECURSIVE InsertSorted(_, _)
InsertSorted(sorted, r) ==
    IF sorted = <<>> THEN <<r>>
    ELSE IF ComesFirst(r, Head(sorted)) THEN <<r>> \o sorted
    ELSE <<Head(sorted)>> \o InsertSorted(Tail(sorted), r)

RECURSIVE SortReleases(_)
SortReleases(rs) ==
    IF rs = <<>> THEN <<>>
    ELSE InsertSorted(SortReleases(SubSeq(rs, 1, Len(rs) - 1)), rs[Len(rs)])

\* get_latest_release: <<>> for None, else <<release>>
get_latest_release(fetch) ==
    LET releases        == get_github_releases(fetch)
        stable_releases == SelectSeq(releases, IsStable)
    IN  IF stable_releases = <<>> THEN <<>>
        ELSE <<SortReleases(stable_releases)[1]>>

\* name.lower().endswith('.zip') or name.lower().endswith('.exe')
IsWindowsName(name) ==
    \/ EndsWith(Lower(name), <<".", "z", "i", "p">>)
    \/ EndsWith(Lower(name), <<".", "e", "x", "e">>)

IsWindowsAsset(asset) == IsWindowsName(asset.name)

FindAssetMutant(release) ==
    LET hits == SelectSeq(release.assets, IsWindowsAsset)
    IN  IF hits = <<>> THEN <<>> ELSE <<hits[Len(hits)]>>

\* find_windows_asset: <<>> for None, else <<asset>>, the first that matches
find_windows_asset(release) ==
    LET hits == SelectSeq(release.assets, IsWindowsAsset)
    IN  IF hits = <<>> THEN <<>> ELSE <<hits[1]>>

(***************************************************************************)
(* Version Comparator as check_for_updates uses it.                        *)
(***************************************************************************)
TagToVersionMutant(tag_name) ==
    IF tag_name # <<>> /\ Head(tag_name) = "v" THEN Tail(tag_name)
    ELSE tag_name

\* latest_release['tag_name'].lstrip('v')
TagToVersion(tag_name) == LStripV(tag_name)

CompareMutantLexical(latest_version, current_version) ==
    StrCmp(latest_version, current_version) = 1

CompareMutantNoExcept(latest_version, current_version) ==
    LET l == ParseVersion(latest_version)
        c == ParseVersion(current_version)
    IN  IF l.ok /\ c.ok THEN VersionGreater(l, c) ELSE TRUE

\* try: version.parse(latest) > version.parse(current)  except: False
CompareVersions(latest_version, current_version) ==
    LET l == ParseVersion(latest_version)
        c == ParseVersion(current_version)
    IN  IF l.ok /\ c.ok THEN VersionGreater(l, c) ELSE FALSE

(***************************************************************************)
(* HTTP Endpoint Layer.  upstream is what a fetch of the release list      *)
(* yields during the run; last_req is the request the last handler served  *)
(* and response what it answered.                                          *)
(***************************************************************************)
\* request.remote_addr and the User-Agent header of the model's one client
REMOTE_ADDR == <<"1", "0", ".", "0", ".", "0", ".", "1">>

USER_AGENT == NULL

INTERNAL_ERROR == [status |-> 500, body |-> [error |-> "Internal server error"]]

OverrideMutant(asset, update_available) == FALSE

\* line 143: an update was computed but the release has no matching asset
NoAssetOverride(asset, update_available) ==
    asset = <<>> /\ update_available

\* lines 161-164: the asset fields join the response when an asset was found
WithAsset(body, asset) ==
    IF asset = <<>> THEN body
    ELSE [k \in DOMAIN body \cup {"download_url", "file_size", "file_name"} |->
            CASE k = "download_url" -> asset[1].browser_download_url
              [] k = "file_size"    -> asset[1].size
              [] k = "file_name"    -> asset[1].name
              [] OTHER              -> body[k]]

\* check_for_updates, lines 120-166: the response for a current version
CheckResponse(current_version, fetch) ==
    LET latest_release == get_latest_release(fetch)
    IN  IF latest_release = <<>>
        THEN [status |-> 200,
              body   |-> [update_available |-> FALSE,
                          message          |-> "No releases available",
                          current_version  |-> current_version]]
        ELSE
        LET release          == latest_release[1]
            latest_version   == TagToVersion(release.tag_name)
            update_available == CompareVersions(latest_version, current_version)
            asset            == find_windows_asset(release)
        IN  IF NoAssetOverride(asset, update_available)
            THEN [status |-> 200,
                  body   |-> [update_available |-> FALSE,
                              message          |->
                                  "Update available but no Windows asset found",
                              latest_version   |-> latest_version,
                              current_version  |-> current_version]]
            ELSE [status |-> 200,
                  body   |-> WithAsset(
                                 [update_available      |-> update_available,
                                  latest_version        |-> latest_version,
                                  current_version       |-> current_version,
                                  release_date          |-> release.published_at,
                                  release_notes         |-> release.body,
                                  is_supported          |-> TRUE,
                                  min_supported_version |-> MIN_SUPPORTED],
                                 asset)]

\* GET /api/updates/check
check_for_updates(args, db_ok) ==
    LET current_version == Get(args.version, DEFAULT_VERSION)
        platform        == Get(args.platform, WINDOWS)
        client_id       == Get(args.client_id, UNKNOWN)
    IN  /\ update_logs' = log_update_action(update_logs, client_id,
                              current_version, CHECK_UPDATE, REMOTE_ADDR,
                              USER_AGENT, platform, db_ok)
        /\ response' = CheckResponse(current_version, upstream)
        /\ last_req' = [endpoint |-> "check", args |-> args, db_ok |-> db_ok]
        /\ UNCHANGED upstream

\* GET /api/updates/latest
get_latest ==
    LET latest_release == get_latest_release(upstream)
    IN  /\ response' =
              IF latest_release = <<>>
              THEN [status |-> 404,
                    body   |-> [error |-> "No releases available"]]
              ELSE [status |-> 200,
                    body   |-> WithAsset(
                        [version       |-> TagToVersion(latest_release[1].tag_name),
                         release_date  |-> latest_release[1].published_at,
                         release_notes |-> latest_release[1].body,
                         html_url      |-> latest_release[1].html_url],
                        find_windows_asset(latest_release[1]))]
        /\ last_req' = [endpoint |-> "latest"]
        /\ UNCHANGED <<update_logs, upstream>>

\* GET /api/updates/versions: every release that is no draft, in the
\* order of the source
list_versions ==
    LET releases == get_github_releases(upstream)
        IsListed(r) == ~r.draft
        listed == SelectSeq(releases, IsListed)
    IN  /\ response' =
              [status |-> 200,
               body   |-> [versions |->
                   [i \in 1..Len(listed) |->
                       [version      |-> TagToVersion(listed[i].tag_name),
                        release_date |-> listed[i].published_at,
                        prerelease   |-> listed[i].prerelease,
                        has_asset    |-> find_windows_asset(listed[i]) # <<>>,
                        html_url     |-> listed[i].html_url]]]]
        /\ last_req' = [endpoint |-> "versions"]
        /\ UNCHANGED <<update_logs, upstream>>

BodyFailsMutant(body) == body.kind = "invalid"

\* request.get_json() raises on a body that is no JSON, and data.get raises
\* on a JSON value that is no object (null, a list, a number, a string)
BodyFails(body) == body.kind # "object"

\* POST /api/updates/install
report_installation(body, db_ok) ==
    /\ IF BodyFails(body)
       THEN /\ response' = INTERNAL_ERROR
            /\ UNCHANGED update_logs
       ELSE /\ update_logs' = log_update_action(update_logs,
                                  Get(body.client_id, UNKNOWN),
                                  Get(body.version, UNKNOWN), INSTALL_UPDATE,
                                  REMOTE_ADDR, USER_AGENT,
                                  Get(body.platform, UNKNOWN), db_ok)
            /\ response' = [status |-> 200, body |-> [status |-> "success"]]
    /\ last_req' = [endpoint |-> "install", body |-> body, db_ok |-> db_ok]
    /\ UNCHANGED upstream

\* POST /api/updates/rollback
report_rollback(body, db_ok) ==
    /\ IF BodyFails(body)
       THEN /\ response' = INTERNAL_ERROR
            /\ UNCHANGED update_logs
       ELSE /\ update_logs' = log_update_action(update_logs,
                                  Get(body.client_id, UNKNOWN),
                                  Get(body.version, UNKNOWN),
                                  RollbackAction(Get(body.reason, UNKNOWN)),
                                  REMOTE_ADDR, USER_AGENT,
                                  Get(body.platform, UNKNOWN), db_ok)
            /\ response' = [status |-> 200, body |-> [status |-> "success"]]
    /\ last_req' = [endpoint |-> "rollback", body |-> body, db_ok |-> db_ok]
    /\ UNCHANGED upstream

(***************************************************************************)
(* GET /api/updates/stats.                                                 *)
(***************************************************************************)
\* LIMIT 10 of the version distribution query
StatsLimit == 10

CountRows(logs, action) ==
    Cardinality({i \in 1..Len(logs) : logs[i].action = action})

\* COUNT(DISTINCT client_id): SQL does not count NULL
CountClients(logs) ==
    Cardinality({logs[i].client_id : i \in 1..Len(logs)} \ {NULL})

CheckIndexes(logs, v) ==
    {i \in 1..Len(logs) :
        logs[i].action = CHECK_UPDATE /\ logs[i].client_version = v}

CheckedVersions(logs) ==
    {logs[i].client_version :
        i \in {k \in 1..Len(logs) : logs[k].action = CHECK_UPDATE}}

FirstRow(logs, v) ==
    CHOOSE i \in CheckIndexes(logs, v) : \A k \in CheckIndexes(logs, v) : i <= k

GroupBeforeMutant(logs, v, w, tie) ==
    LET cv == Cardinality(CheckIndexes(logs, v))
        cw == Cardinality(CheckIndexes(logs, w))
    IN  \/ cv < cw
        \/ cv = cw /\ FirstRow(logs, v) < FirstRow(logs, w)

\* ORDER BY count DESC: group v is listed before group w.  SQL leaves the
\* order of groups of equal count open; tie names the order the engine
\* takes, by first row ascending or descending
GroupBefore(logs, v, w, tie) ==
    LET cv == Cardinality(CheckIndexes(logs, v))
        cw == Cardinality(CheckIndexes(logs, w))
    IN  \/ cv > cw
        \/ cv = cw /\ tie = "asc"  /\ FirstRow(logs, v) < FirstRow(logs, w)
        \/ cv = cw /\ tie = "desc" /\ FirstRow(logs, v) > FirstRow(logs, w)

RECURSIVE OrderGroups(_, _, _)
OrderGroups(logs, groups, tie) ==
    IF groups = {} THEN <<>>
    ELSE LET first == CHOOSE v \in groups :
                          \A w \in groups \ {v} : GroupBefore(logs, v, w, tie)
         IN  <<[version |-> first,
                count   |-> Cardinality(CheckIndexes(logs, first))]>>
             \o OrderGroups(logs, groups \ {first}, tie)

\* LIMIT n
Limit(rows, n) == SubSeq(rows, 1, IF Len(rows) < n THEN Len(rows) ELSE n)

VersionDistribution(logs, tie) ==
    Limit(OrderGroups(logs, CheckedVersions(logs), tie), StatsLimit)

get_stats(db_ok, tie) ==
    /\ response' =
          IF ~db_ok THEN INTERNAL_ERROR
          ELSE [status |-> 200,
                body   |-> [total_checks        |-> CountRows(update_logs, CHECK_UPDATE),
                            total_installations |-> CountRows(update_logs, INSTALL_UPDATE),
                            unique_clients      |-> CountClients(update_logs),
                            version_distribution |->
                                VersionDistribution(update_logs, tie)]]
    /\ last_req' = [endpoint |-> "stats", db_ok |-> db_ok]
    /\ UNCHANGED <<update_logs, upstream>>

(***************************************************************************)
(* Inputs of the model.                                                    *)
(***************************************************************************)
CLIENT_A == <<"c", "1">>

CLIENT_B == <<"c", "2">>

NOTES == <<"n", "o", "t", "e", "s">>

HTML_URL == <<"h">>

REASON == <<"b", "a", "d">>

Release(tag, date, draft, prerelease, assets) ==
    [tag_name     |-> tag,
     published_at |-> date,
     body         |-> NOTES,
     draft        |-> draft,
     prerelease   |-> prerelease,
     assets       |-> assets,
     html_url     |-> HTML_URL]

Asset(name, size, url) ==
    [name |-> name, size |-> size, browser_download_url |-> url]

\* what requests.get may yield: a response with a status, or an exception
Ok(json) == [outcome |-> "response", status_code |-> 200, json |-> json]

HttpError(code, json) ==
    [outcome |-> "response", status_code |-> code, json |-> json]

FetchRaises == [outcome |-> "exception", status_code |-> 0, json |-> <<>>]

README_TXT == Asset(<<"r", ".", "t", "x", "t">>, 1, <<"1">>)

SETUP_ZIP_UPPER == Asset(<<"A", ".", "Z", "I", "P">>, 2, <<"2">>)

SETUP_EXE == Asset(<<"b", ".", "e", "x", "e">>, 3, <<"3">>)

AssetLists ==
    { <<>>, <<README_TXT>>, <<README_TXT, SETUP_ZIP_UPPER, SETUP_EXE>> }

DATE_OLD == <<"1", "0">>

DATE_MID == <<"2">>

DATE_NEW == <<"9">>

V1_0_0 == <<"1", ".", "0", ".", "0">>

V1_9_0 == <<"1", ".", "9", ".", "0">>

V1_10_0 == <<"1", ".", "1", "0", ".", "0">>

V2_0_0 == <<"2", ".", "0", ".", "0">>

Initial(ups) ==
    /\ update_logs = <<>>
    /\ upstream \in ups
    /\ last_req = [endpoint |-> "none"]
    /\ response = [status |-> 0]

(***************************************************************************)
(* Specification of the logging endpoints: check, install and rollback     *)
(* calls with every kind of body, against a log store that may fail.       *)
(***************************************************************************)
LogUpstreams ==
    { FetchRaises,
      Ok(<<Release(<<"v">> \o V2_0_0, DATE_NEW, FALSE, FALSE, <<SETUP_EXE>>)>>) }

CheckArgs(versions, clients) ==
    [version : versions, platform : {ABSENT}, client_id : clients]

\* a body that is no JSON, a JSON value that is no object, a JSON object
\* sent without a JSON content type, or a JSON object
Bodies(kinds, clients, versions, reasons) ==
    [kind : kinds, client_id : clients, version : versions,
     reason : reasons, platform : {ABSENT}]

NotObjects ==
    Bodies({"invalid", "non_object", "object_not_json_mimetype"},
           {ABSENT}, {ABSENT}, {ABSENT})

InstallBodies ==
    NotObjects \cup
    Bodies({"object"}, {ABSENT, NULL}, {ABSENT, NULL, V1_0_0}, {ABSENT})

RollbackBodies ==
    NotObjects \cup
    Bodies({"object"}, {ABSENT}, {ABSENT, NULL}, {ABSENT, NULL, REASON})

Init == Initial(LogUpstreams)

Next ==
    \/ \E args \in CheckArgs({ABSENT}, {ABSENT, CLIENT_A}), db_ok \in BOOLEAN :
          Len(update_logs) < MaxLog /\ check_for_updates(args, db_ok)
    \/ \E body \in InstallBodies, db_ok \in BOOLEAN :
          Len(update_logs) < MaxLog /\ report_installation(body, db_ok)
    \/ \E body \in RollbackBodies, db_ok \in BOOLEAN :
          Len(update_logs) < MaxLog /\ report_rollback(body, db_ok)

Spec == Init /\ [][Next]_vars

(***************************************************************************)
(* Claims about the logging endpoints (specification Spec).                *)
(***************************************************************************)
LoggingEndpoints == {"check", "install", "rollback"}

SUCCESS == [status |-> 200, body |-> [status |-> "success"]]

AppendsOneRow ==
    /\ Len(update_logs') = Len(update_logs) + 1
    /\ SubSeq(update_logs', 1, Len(update_logs)) = update_logs

\* the request reaches the INSERT and the INSERT succeeds
Stores(req) ==
    /\ req.db_ok
    /\ \/ req.endpoint = "check"
       \/ req.body.kind = "object" /\ req.body.version # NULL

\* C1 as stated: every call to check, install and rollback, whatever its
\* outcome, leaves exactly one more row in update_logs than before and the
\* earlier rows unchanged.
C1_OneRowPerCall ==
    [][last_req'.endpoint \in LoggingEndpoints => AppendsOneRow]_vars

\* C1 amended: a call to check, install or rollback adds exactly one row,
\* carrying the request's endpoint as its action, when its body (install,
\* rollback) is a JSON object with a JSON content type and the insert
\* succeeds, whatever the upstream yields; it adds no row when the insert
\* fails (store error, or a null version) or the body is no JSON object;
\* earlier rows are never changed.
C1_OneRowWhenStored ==
    [][last_req'.endpoint \in LoggingEndpoints =>
          IF Stores(last_req')
          THEN /\ AppendsOneRow
               /\ update_logs'[Len(update_logs')].id = Len(update_logs) + 1
               /\ Head(update_logs'[Len(update_logs')].action) =
                     CASE last_req'.endpoint = "check"   -> "check_update"
                       [] last_req'.endpoint = "install" -> "install_update"
                       [] OTHER                          -> "rollback_update: "
          ELSE update_logs' = update_logs]_vars

\* a check that found no release (the upstream fetch raised) wrote its row
C1_Witness ==
    /\ last_req.endpoint = "check"
    /\ upstream = FetchRaises
    /\ response.body.message = "No releases available"
    /\ Len(update_logs) = 1
    /\ update_logs[1].action = CHECK_UPDATE

\* C8 as stated: install and rollback answer 200 {status: success} for every
\* request whose body is parsable, and the generic error only when the body
\* is unparsable.
C8_SuccessUnlessUnparsable ==
    last_req.endpoint \in {"install", "rollback"} =>
        IF last_req.body.kind = "invalid"
        THEN response = INTERNAL_ERROR
        ELSE response = SUCCESS

\* C8 amended: install and rollback answer 200 {status: success} for every
\* request whose body is a JSON object sent with a JSON content type, also
\* when the log-store write fails; they answer the generic error when the
\* body is unparsable, is a JSON value that is no object, or comes without
\* a JSON content type.
C8_SuccessIffObject ==
    last_req.endpoint \in {"install", "rollback"} =>
        IF last_req.body.kind = "object"
        THEN response = SUCCESS
        ELSE response = INTERNAL_ERROR /\ response.status = 500

\* an install report answered with success although its row was not stored
C8_Witness ==
    /\ last_req.endpoint = "install"
    /\ last_req.body.kind = "object"
    /\ ~last_req.db_ok
    /\ update_logs = <<>>
    /\ response = SUCCESS

(***************************************************************************)
(* Specification of the update check: the upstream holds one stable        *)
(* release whose tag and assets vary (or fails, or holds no stable         *)
(* release), and clients check with every version string of the pool.      *)
(***************************************************************************)
Suffixes ==
    { <<"-", "a", "l", "p", "h", "a">>,
      <<"-", "a", "l", "p", "h", "a", ".", "1">>,
      <<"-", "a", "l", "p", "h", "a", ".", "b", "e", "t", "a">>,
      <<"-", "r", "c", ".", "1">>,
      <<"-", "1">>,
      <<"+", "b", "1">>,
      <<"+", "b", "2">> }

PlainVersions == {V1_0_0, V1_9_0, V1_10_0, V2_0_0}

Malformed == { <<"a", "b", "c">>, <<"1", ".", "1", "0">> }

VersionPool ==
    PlainVersions
    \cup { <<"v">> \o V1_9_0, <<"v">> \o V1_10_0, <<"V">> \o V1_10_0,
           <<"v", "v">> \o V1_10_0 }
    \cup { V1_10_0 \o s : s \in Suffixes }
    \cup Malformed

StableWith(tag, assets) == Release(tag, DATE_MID, FALSE, FALSE, assets)

BETA == Release(<<"v", "2", ".", "1", ".", "0", "-", "b", "e", "t", "a">>,
                DATE_NEW, FALSE, TRUE, <<SETUP_EXE>>)

DRAFT == Release(<<"v", "3", ".", "0", ".", "0">>, DATE_NEW, TRUE, FALSE,
                 <<SETUP_EXE>>)

CheckUpstreams ==
    { Ok(<<StableWith(tag, assets)>>) : tag \in VersionPool, assets \in AssetLists }
    \cup { Ok(<<StableWith(<<"v">> \o V2_0_0, <<SETUP_EXE>>), BETA>>),
           Ok(<<>>),
           Ok(<<BETA, DRAFT>>),
           HttpError(404, <<StableWith(<<"v">> \o V2_0_0, <<SETUP_EXE>>)>>),
           HttpError(500, <<>>),
           FetchRaises }

InitCheck == Initial(CheckUpstreams)

NextCheck ==
    \E args \in CheckArgs(VersionPool \cup {<<>>, ABSENT}, {ABSENT}) :
        Len(update_logs) < MaxChecks /\ check_for_updates(args, TRUE)

SpecCheck == InitCheck /\ [][NextCheck]_vars

(***************************************************************************)
(* Semantic Versioning 2.0.0, the reference the claims compare with:       *)
(* MAJOR.MINOR.PATCH, an optional -pre.release and an optional +build;     *)
(* numeric identifiers without leading zeros.                              *)
(***************************************************************************)
SemVerNumeric(id) == AllDigits(id) /\ (Len(id) = 1 \/ id[1] # "0")

SemVerIdent(id) ==
    /\ id # <<>>
    /\ \A i \in 1..Len(id) : id[i] \in AlNum \cup {"-"}

\* the version without the optional leading "v"
SemVerBody(s) == IF s # <<>> /\ s[1] = "v" THEN Tail(s) ELSE s

SemVerParts(s) ==
    LET b     == SemVerBody(s)
        plus  == FirstIndex(b, {"+"})
        main  == IF plus = 0 THEN b ELSE SubSeq(b, 1, plus - 1)
        dash  == FirstIndex(main, {"-"})
        core  == IF dash = 0 THEN main ELSE SubSeq(main, 1, dash - 1)
    IN  [core     |-> Split(core, {"."}),
         has_pre  |-> dash # 0,
         pre      |-> IF dash = 0 THEN <<>> ELSE Split(From(main, dash + 1), {"."}),
         has_build |-> plus # 0,
         build    |-> IF plus = 0 THEN <<>> ELSE Split(From(b, plus + 1), {"."})]

SemVerValid(s) ==
    LET p == SemVerParts(s)
    IN  /\ Len(p.core) = 3
        /\ \A i \in 1..3 : SemVerNumeric(p.core[i])
        /\ \A i \in 1..Len(p.pre) :
              SemVerIdent(p.pre[i]) /\ (AllDigits(p.pre[i]) => SemVerNumeric(p.pre[i]))
        /\ \A i \in 1..Len(p.build) : SemVerIdent(p.build[i])

\* a version of the form MAJOR.MINOR.PATCH, no pre-release, no build
SemVerPlain(s) ==
    SemVerValid(s) /\ ~SemVerParts(s).has_pre /\ ~SemVerParts(s).has_build

SemVerIdentCmp(x, y) ==
    IF AllDigits(x) /\ AllDigits(y) THEN CmpInt(ToNat(x), ToNat(y))
    ELSE IF AllDigits(x) THEN -1
    ELSE IF AllDigits(y) THEN 1
    ELSE StrCmp(x, y)

RECURSIVE SemVerPreCmp(_, _)
SemVerPreCmp(a, b) ==
    IF a = <<>> /\ b = <<>> THEN 0
    ELSE IF a = <<>> THEN -1
    ELSE IF b = <<>> THEN 1
    ELSE IF SemVerIdentCmp(Head(a), Head(b)) # 0
         THEN SemVerIdentCmp(Head(a), Head(b))
    ELSE SemVerPreCmp(Tail(a), Tail(b))

\* precedence: core numerically, a pre-release below its release, build
\* metadata ignored
SemVerGreater(a, b) ==
    LET p == SemVerParts(a)
        q == SemVerParts(b)
        c == CmpNatSeq([i \in 1..3 |-> ToNat(p.core[i])],
                       [i \in 1..3 |-> ToNat(q.core[i])])
    IN  IF c # 0 THEN c = 1
        ELSE IF ~p.has_pre THEN q.has_pre
        ELSE IF ~q.has_pre THEN FALSE
        ELSE SemVerPreCmp(p.pre, q.pre) = 1

(***************************************************************************)
(* Claims about the update check (specification SpecCheck).                *)
(***************************************************************************)
Checked == last_req.endpoint = "check"

\* the version string the client sent
SentVersion == Get(last_req.args.version, DEFAULT_VERSION)

\* the upstream answered 200 and its list holds a stable release
HasStable ==
    /\ upstream.outcome = "response"
    /\ upstream.status_code = 200
    /\ \E i \in 1..Len(upstream.json) :
          ~upstream.json[i].draft /\ ~upstream.json[i].prerelease

\* the stable releases no other stable release is published after
NewestStable ==
    {r \in {upstream.json[i] : i \in 1..Len(upstream.json)} :
        /\ ~r.draft /\ ~r.prerelease
        /\ \A k \in 1..Len(upstream.json) :
              (~upstream.json[k].draft /\ ~upstream.json[k].prerelease)
                  => StrCmp(r.published_at, upstream.json[k].published_at) >= 0}

NameMatches(name) ==
    \E ext \in { <<".", "z", "i", "p">>, <<".", "e", "x", "e">> } :
        /\ Len(name) >= 4
        /\ \A i \in 1..4 : LowerChar(name[Len(name) - 4 + i]) = ext[i]

HasMatchingAsset(r) == \E i \in 1..Len(r.assets) : NameMatches(r.assets[i].name)

\* C2 as stated: for valid SemVer strings (optional leading "v") and a
\* release with a matching asset, update_available is parsed(tag) >
\* parsed(current) under SemVer precedence.
C2_SemVerOrder ==
    (Checked /\ HasStable) =>
        \A r \in NewestStable :
            (SemVerValid(r.tag_name) /\ SemVerValid(SentVersion)
                 /\ HasMatchingAsset(r))
            => response.body.update_available =
                   SemVerGreater(r.tag_name, SentVersion)

\* C2 amended: the comparison is packaging.version's (PEP 440); for
\* versions of the plain form MAJOR.MINOR.PATCH with an optional leading
\* "v", and a release with a matching asset, update_available is
\* parsed(tag) > parsed(current) under SemVer precedence.
C2_PlainSemVerOrder ==
    (Checked /\ HasStable) =>
        \A r \in NewestStable :
            (SemVerPlain(r.tag_name) /\ SemVerPlain(SentVersion)
                 /\ HasMatchingAsset(r))
            => /\ response.status = 200
               /\ response.body.update_available =
                      SemVerGreater(r.tag_name, SentVersion)

\* 1.10.0 is announced to a client on 1.9.0
C2_Witness ==
    /\ Checked /\ HasStable
    /\ \E r \in NewestStable : r.tag_name = <<"v">> \o V1_10_0
    /\ SentVersion = V1_9_0
    /\ response.body.update_available

\* one leading "v" or "V" removed if present
StripOneV(s) == IF s # <<>> /\ s[1] \in {"v", "V"} THEN Tail(s) ELSE s

C5_NoAssetNoUpdate ==
    (Checked /\ HasStable) =>
        \A r \in NewestStable :
            (~HasMatchingAsset(r)
                 /\ CompareVersions(TagToVersion(r.tag_name), SentVersion))
            => /\ response.status = 200
               /\ response.body.update_available = FALSE

\* a newer release that only carries a text file is not announced
C5_Witness ==
    /\ Checked /\ HasStable
    /\ \E r \in NewestStable :
          /\ r.assets = <<README_TXT>>
          /\ r.tag_name = V2_0_0
    /\ SentVersion = V1_0_0
    /\ response.body.message = "Update available but no Windows asset found"
    /\ ~response.body.update_available

\* packaging.version.parse rejects the string
Unparsable(s) == ~ParseVersion(s).ok

\* C6: a version string that fails to parse, as latest tag or as current
\* version, gives update_available false in a normal (200) response.
C6_UnparsableMeansNoUpdate ==
    (Checked /\ HasStable) =>
        \A r \in NewestStable :
            (Unparsable(TagToVersion(r.tag_name)) \/ Unparsable(SentVersion))
            => /\ response.status = 200
               /\ "error" \notin DOMAIN response.body
               /\ response.body.update_available = FALSE

\* a client sending "abc" against a newer release with an asset
C6_Witness ==
    /\ Checked /\ HasStable
    /\ SentVersion = <<"a", "b", "c">>
    /\ \E r \in NewestStable : r.tag_name = V2_0_0 /\ HasMatchingAsset(r)
    /\ response.status = 200
    /\ ~response.body.update_available

\* C7: when the fetch fails (status other than 200, or an exception) or
\* the list is empty or holds only drafts and prereleases, the adapter
\* returns an empty sequence (on failure), the selector returns no release
\* and the check answers 200, update_available false, "No releases
\* available".
C7_NoReleaseAnswer ==
    (Checked /\ ~HasStable) =>
        /\ (upstream.outcome # "response" \/ upstream.status_code # 200)
               => get_github_releases(upstream) = <<>>
        /\ get_latest_release(upstream) = <<>>
        /\ response.status = 200
        /\ response.body.update_available = FALSE
        /\ response.body.message = "No releases available"

\* an upstream answering 404 with a release list in its body
C7_Witness ==
    /\ Checked
    /\ upstream.status_code = 404
    /\ upstream.json # <<>>
    /\ response.body.message = "No releases available"

\* C10: a response with update_available true carries download_url,
\* file_size and file_name, those of the first asset, in original order,
\* of the selected stable release whose lower-cased name ends in .zip or
\* .exe.
C10_UpdateCarriesAsset ==
    (Checked /\ response.body.update_available) =>
        /\ HasStable
        /\ {"download_url", "file_size", "file_name"} \subseteq DOMAIN response.body
        /\ \E r \in NewestStable :
              \E i \in 1..Len(r.assets) :
                  /\ NameMatches(r.assets[i].name)
                  /\ \A k \in 1..(i - 1) : ~NameMatches(r.assets[k].name)
                  /\ response.body.download_url = r.assets[i].browser_download_url
                  /\ response.body.file_size = r.assets[i].size
                  /\ response.body.file_name = r.assets[i].name

\* the update is announced with A.ZIP, which stands before b.exe
C10_Witness ==
    /\ Checked
    /\ response.body.update_available
    /\ response.body.file_name = SETUP_ZIP_UPPER.name
    /\ response.body.file_size = SETUP_ZIP_UPPER.size

(***************************************************************************)
(* Specification of the release selection: the upstream holds any list of  *)
(* up to MaxReleases stable, prerelease and draft entries; a release's tag *)
(* names its kind and its date, so a response names one release.           *)
(***************************************************************************)
Dates == {DATE_OLD, DATE_MID, DATE_NEW}

KindTag(draft, prerelease) ==
    IF draft THEN <<"v", "3", ".">>
    ELSE IF prerelease THEN <<"v", "2", ".">>
    ELSE <<"v", "1", ".">>

ReleasePool ==
    { Release(KindTag(k[1], k[2]) \o d \o <<".", "0">>, d, k[1], k[2], <<SETUP_EXE>>) :
        k \in {<<FALSE, FALSE>>, <<FALSE, TRUE>>, <<TRUE, FALSE>>}, d \in Dates }

ReleaseLists ==
    UNION { [1..n -> ReleasePool] : n \in 0..MaxReleases }

SelectUpstreams ==
    { Ok(rs) : rs \in ReleaseLists }
    \cup { HttpError(404, <<>>), FetchRaises }

InitSelect == Initial(SelectUpstreams)

NextSelect ==
    \/ get_latest
    \/ list_versions

SpecSelect == InitSelect /\ [][NextSelect]_vars

\* the releases of the upstream list that a /latest response may denote
Denoted ==
    {r \in {upstream.json[i] : i \in 1..Len(upstream.json)} :
        /\ From(r.tag_name, 2) = response.body.version
        /\ r.published_at = response.body.release_date}

\* C4: for any mix of draft, prerelease and stable entries the selected
\* release is stable and no stable entry has a greater published_at
\* (compared as strings); drafts and prereleases never win.
C4_SelectsNewestStable ==
    /\ HasStable =>
          /\ get_latest_release(upstream) # <<>>
          /\ get_latest_release(upstream)[1] \in NewestStable
    /\ (last_req.endpoint = "latest" /\ HasStable) =>
          /\ response.status = 200
          /\ Denoted # {}
          /\ Denoted \subseteq NewestStable

\* the stable release dated "2" is selected although a prerelease is dated
\* "9" and another stable release "10"
C4_Witness ==
    /\ last_req.endpoint = "latest"
    /\ upstream.outcome = "response"
    /\ \E i, j, k \in 1..Len(upstream.json) :
          /\ upstream.json[i].prerelease /\ upstream.json[i].published_at = DATE_NEW
          /\ IsStable(upstream.json[j]) /\ upstream.json[j].published_at = DATE_OLD
          /\ IsStable(upstream.json[k]) /\ upstream.json[k].published_at = DATE_MID
          /\ j < k
    /\ response.status = 200
    /\ response.body.release_date = DATE_MID
    /\ response.body.version = <<"1", ".", "2", ".", "0">>

(***************************************************************************)
(* Specification of the statistics: a log store that is empty or already   *)
(* holds StatsLimit + 1 checks of distinct versions, then further check,   *)
(* install and rollback calls, and stats calls.                            *)
(***************************************************************************)
DigitChar(d) == CHOOSE c \in Digits : DigitVal(c) = d

\* str(n) for n < 100
Decimal(n) ==
    IF n < 10 THEN <<DigitChar(n)>>
    ELSE <<DigitChar(n \div 10), DigitChar(n % 10)>>

PrefillVersion(i) == <<"0", ".">> \o Decimal(i)

\* the log store after n checks by CLIENT_A with versions 0.1 ... 0.n
RECURSIVE Prefill(_)
Prefill(n) ==
    IF n = 0 THEN <<>>
    ELSE log_update_action(Prefill(n - 1), CLIENT_A, PrefillVersion(n),
                           CHECK_UPDATE, REMOTE_ADDR, USER_AGENT, WINDOWS, TRUE)

\* rows written since the start of the run
ExtraRows ==
    IF Len(update_logs) >= StatsLimit + 1
    THEN Len(update_logs) - (StatsLimit + 1)
    ELSE Len(update_logs)

InitStats ==
    /\ update_logs \in {<<>>, Prefill(StatsLimit + 1)}
    /\ upstream = FetchRaises
    /\ last_req = [endpoint |-> "none"]
    /\ response = [status |-> 0]

NextStats ==
    \/ \E args \in CheckArgs({V1_0_0, PrefillVersion(StatsLimit + 1)},
                             {CLIENT_A, CLIENT_B}) :
          ExtraRows < MaxStatRows /\ check_for_updates(args, TRUE)
    \/ \E body \in Bodies({"object"}, {NULL}, {V1_0_0}, {ABSENT}) :
          ExtraRows < MaxStatRows /\ report_installation(body, TRUE)
    \/ \E body \in Bodies({"object"}, {ABSENT}, {V1_0_0}, {REASON}) :
          ExtraRows < MaxStatRows /\ report_rollback(body, TRUE)
    \/ \E db_ok \in BOOLEAN, tie \in {"asc", "desc"} : get_stats(db_ok, tie)

SpecStats == InitStats /\ [][NextStats]_vars

RowsWith(action) == {i \in 1..Len(update_logs) : update_logs[i].action = action}

ChecksOf(v) ==
    {i \in RowsWith(CHECK_UPDATE) : update_logs[i].client_version = v}

\* C9: stats returns total_checks = number of check_update rows,
\* total_installations = number of install_update rows, unique_clients =
\* number of distinct client_id values (SQL counts the values that are not
\* NULL), and version_distribution = at most 10 entries, the most frequent
\* client_version values among the check_update rows with their counts, in
\* non-increasing order of count.
C9_StatsCounts ==
    (last_req.endpoint = "stats" /\ response.status = 200) =>
        LET b == response.body
            d == b.version_distribution
            groups == {update_logs[i].client_version : i \in RowsWith(CHECK_UPDATE)}
            listed == {d[i].version : i \in 1..Len(d)}
        IN  /\ b.total_checks = Cardinality(RowsWith(CHECK_UPDATE))
            /\ b.total_installations = Cardinality(RowsWith(INSTALL_UPDATE))
            /\ b.unique_clients =
                   Cardinality({update_logs[i].client_id :
                                   i \in 1..Len(update_logs)} \ {NULL})
            /\ Len(d) <= 10
            /\ Len(d) = IF Cardinality(groups) < 10 THEN Cardinality(groups) ELSE 10
            /\ listed \subseteq groups
            /\ Cardinality(listed) = Len(d)
            /\ \A i \in 1..Len(d) : d[i].count = Cardinality(ChecksOf(d[i].version))
            /\ \A i \in 1..(Len(d) - 1) : d[i].count >= d[i + 1].count
            /\ \A v \in groups \ listed :
                   \A i \in 1..Len(d) : Cardinality(ChecksOf(v)) <= d[i].count

\* twelve versions were checked, 1.0.0 twice by two clients, one install was
\* reported: 1.0.0 heads the ten listed versions
C9_Witness ==
    /\ last_req.endpoint = "stats"
    /\ response.status = 200
    /\ response.body.total_checks = StatsLimit + 3
    /\ response.body.total_installations = 1
    /\ response.body.unique_clients = 2
    /\ Len(response.body.version_distribution) = 10
    /\ response.body.version_distribution[1] = [version |-> V1_0_0, count |-> 2]
    /\ response.body.version_distribution[2].count = 1

====
